---------------------------- MODULE Spec2Model ----------------------------
(***************************************************************************)
(* A model of efinance's quote resolver (utils.search_quote and its local  *)
(* cache), of the batch fetch orchestrators (get_quote_history_multi in    *)
(* common, fund and futures) and of the numeric coercion decorator         *)
(* (utils.to_numeric).                                                     *)
(*                                                                         *)
(* The specifications share the module's variables; each one moves its     *)
(* own variables and leaves the others at their idle values:               *)
(*   SpecResolve  the resolver and its cache,                              *)
(*   SpecQuoteId  get_quote_id under its retry, and direct searches,       *)
(*   SpecHistory  get_quote_history, which dispatches on its argument,     *)
(*   SpecBatch    one batch fetch: the caller's thread and its tasks,      *)
(*   SpecNumeric  to_numeric applied to a table or a row,                  *)
(*   SpecSeries   a single-symbol series getter of common on one answer,   *)
(*   SpecDeal     get_deal_detail and the base-info cache,                 *)
(*   SpecCacheFile  processes and threads that share the cache file.       *)
(***************************************************************************)
EXTENDS Integers, Sequences, FiniteSets, TLC

VARIABLES
    \* ---- resolver ----
    SEARCH_RESULT_DICT, \* shared.SEARCH_RESULT_DICT: keyword -> <<>> or <<entry>>
    cacheFile,          \* the file at SEARCH_RESULT_CACHE_PATH: <<>> (absent) or <<dict>>
    now,                \* time.time(), in seconds
    call,               \* the arguments of the last search_quote call
    ret,                \* what that call returned
    requested,          \* whether that call issued a search request
    response,           \* the body of the answer: "none", "json" or "unparsable"
    simplejson,         \* whether requests decodes with simplejson in this install
    \* ---- batch fetch ----
    site,               \* which get_quote_history_multi: "common", "fund" or "futures"
    codes,              \* the input list of symbols
    blank,              \* the symbol that is an empty string (0: none is)
    MAX_CONNECTIONS,    \* config.MAX_CONNECTIONS, the concurrency ceiling
    tries,              \* the tries argument
    return_df,          \* the return_df flag among the keyword arguments
    pcMain,             \* where the calling thread is
    launched,           \* how many symbols of codes have had start(code) called
    task,               \* per position of codes: the task thread's state
    dfs,                \* the shared dict, in insertion order: <<[key, val], ...>>
    pbar,               \* tqdm's counter (pbar.n)
    result,             \* what the call returned
    \* ---- to_numeric ----
    kind,               \* what the decorated function returned: "DataFrame" or "Series"
    orig,               \* that value: column or index label -> its cells
    values,             \* the value after the runs of to_numeric's `run` so far
    first,              \* the value after the first run
    runs,               \* how many times `run` has been applied
    intStrLimit,        \* whether the interpreter limits the digits of str(int)
    failure,            \* the exception a run of `run` ended by, or "none"
    \* ---- entry points ----
    quoteIdCall,        \* a call of get_quote_id: its arguments and how far it is
    historyCall,        \* a call of get_quote_history: its argument and outcome
    \* ---- single-symbol getters of common ----
    seriesCall,         \* a call of a series getter: the answer it gets, its outcome
    BASE_INFO_CACHE,    \* shared.BASE_INFO_CACHE: quote id -> <<>> or <<base info>>
    dealCall,           \* a call of get_deal_detail: its requests and its outcome
    \* ---- processes and threads that share the cache file ----
    disk,               \* the bytes of the file at SEARCH_RESULT_CACHE_PATH
    proc,               \* per process: how far its start is, its SEARCH_RESULT_DICT
    saver               \* per resolving thread: its process, keyword and position

resolveVars == <<SEARCH_RESULT_DICT, cacheFile, now, call, ret, requested, response, simplejson>>

batchVars == <<site, codes, blank, MAX_CONNECTIONS, tries, return_df, pcMain, launched, task, dfs, pbar, result>>

numericVars == <<kind, orig, values, first, runs, intStrLimit, failure>>

entryVars == <<quoteIdCall, historyCall>>

getterVars == <<seriesCall, BASE_INFO_CACHE, dealCall>>

fileVars == <<disk, proc, saver>>

vars == <<resolveVars, batchVars, numericVars, entryVars, getterVars, fileVars>>

\* No call of a series getter.
NoSeriesCall ==
    [pc |-> "none", getter |-> "none", quote_id |-> <<>>,
     response |-> [data |-> FALSE, name |-> <<>>, series |-> <<>>],
     out |-> [kind |-> "none", columns |-> <<>>, rows |-> <<>>, name |-> <<>>, code |-> <<>>]]

\* The quote ids given to get_deal_detail.
DealQuoteIds == {"1.600519", "0.000001"}

\* No call of get_deal_detail.
NoDealCall ==
    [pc |-> "none", quote_id |-> "", cached |-> FALSE, base_requests |-> 0,
     detail_requests |-> 0, base_info |-> <<>>, out |-> "none"]

\* The getters' variables when no getter is modelled.
IdleGetter ==
    /\ seriesCall = NoSeriesCall
    /\ BASE_INFO_CACHE = [q \in DealQuoteIds |-> <<>>]
    /\ dealCall = NoDealCall

\* No get_quote_id call.
NoQuoteIdCall ==
    [pc |-> "none", stock_code |-> "", market_type |-> "NoFilter", use_local |-> FALSE,
     suppress_error |-> FALSE, symbol_mode |-> FALSE,
     fails |-> 0, checks |-> 0, requests |-> 0, sleeps |-> 0,
     out |-> [kind |-> "none", quote |-> <<>>], warned |-> FALSE]

\* No get_quote_history call.
NoHistoryCall ==
    [pc |-> "none", site |-> "common", type |-> "none", code |-> "", val |-> <<>>,
     path |-> "none", requests |-> 0, out |-> "none"]

\* The entry points' variables when no call of them is modelled.
IdleEntry ==
    /\ quoteIdCall = NoQuoteIdCall
    /\ historyCall = NoHistoryCall

\* The to_numeric variables when no table is modelled.
IdleNumeric ==
    /\ kind = "none"
    /\ orig = <<>>
    /\ values = <<>>
    /\ first = <<>>
    /\ runs = 0
    /\ intStrLimit = FALSE
    /\ failure = "none"

\* No batch result yet.
NoBatchResult == [kind |-> "none", dict |-> <<>>, rows |-> <<>>]

\* The batch variables when no batch is modelled.
IdleBatch ==
    /\ site = "common"
    /\ codes = <<>>
    /\ blank = 0
    /\ MAX_CONNECTIONS = 1
    /\ tries = 1
    /\ return_df = FALSE
    /\ pcMain = "none"
    /\ launched = 0
    /\ task = <<>>
    /\ dfs = <<>>
    /\ pbar = 0
    /\ result = NoBatchResult

\* The processes that share one cache file.
Procs == {1, 2}

\* The shared file's variables when no process is modelled.
IdleFile ==
    /\ disk = [kind |-> "absent", dict |-> <<>>, len |-> 0]
    /\ proc = [p \in Procs |-> [pc |-> "off", start |-> "none", loaded |-> <<>>, mem |-> <<>>]]
    /\ saver = <<>>

(***************************************************************************)
(* Resolver: utils/__init__.py                                             *)
(***************************************************************************)

\* Bounds of the resolver's model.
MaxItems == 2   \* candidates in one search response
MaxSpans == 1   \* whole cache lifetimes the clock may advance

\* The keywords searched for; "6005" is a prefix of the ticker "600519".
Keywords == {"600519", "6005"}

\* MarketType values used as filters and as the candidates' Classify.
MarketTypeValues == {"AStock", "HK"}

\* market_type=None
NoFilter == "NoFilter"

\* The candidate records of a search response (item["Code"], item["Classify"]):
\* the ticker 600519 listed in two markets, and a ticker 6005.
Items == {[Code |-> "600519", Classify |-> "AStock"],
          [Code |-> "600519", Classify |-> "HK"],
          [Code |-> "6005", Classify |-> "HK"]}

\* A Quote, reduced to the two fields the resolver reads (code, classify);
\* the other twelve fields are carried along untouched by the code.
Quotes == {[code |-> item.Code, classify |-> item.Classify] : item \in Items}

\* A response's QuotationCodeTable.Data: a list of candidates, each listed
\* once (None and [] are both the empty list: line 187 treats them alike).
Responses ==
    {s \in UNION {[1..n -> Items] : n \in 0..MaxItems} :
        \A i, j \in 1..Len(s) : s[i] = s[j] => i = j}

\* 缓存过期秒数
max_ts == 3600 * 24 * 3

\* The clock's first value.
T0 == 1

\* Quote(*item.values())
QuoteOf(item) == [code |-> item.Code, classify |-> item.Classify]

\* dict(quote._asdict()) with d["last_time"] = now
EntryOf(quote, t) == [code |-> quote.code, classify |-> quote.classify, last_time |-> t]

\* An entry written by a version that stored no last_time: q.get("last_time")
\* is None, modelled as 0 (which `not q.get("last_time")` treats the same).
LegacyEntry(quote) == EntryOf(quote, 0)

\* Quote(**_q) after del _q["last_time"]
QuoteOfEntry(q) == [code |-> q.code, classify |-> q.classify]

RECURSIVE SelectSeq2(_, _, _)
\* A list comprehension's filter, kept in order (Test is a set of kept elements).
SelectSeq2(s, Keep, i) ==
    IF i > Len(s) THEN <<>>
    ELSE (IF s[i] \in Keep THEN <<s[i]>> ELSE <<>>) \o SelectSeq2(s, Keep, i + 1)

\* quotes[:n]
Prefix(s, n) == SubSeq(s, 1, IF n < Len(s) THEN n ELSE Len(s))

\* The expiry test with its comparison off by one.
ExpiredAtMaxAge(t, last_time) == (t - last_time) >= max_ts

\* The expiry test of search_quote_locally: (now - last_time) > max_ts
Expired(t, last_time) == (t - last_time) > max_ts

\* search_quote_locally: <<quote>> on a valid hit, <<>> for None.
search_quote_locally(dict, t, keyword, market_type) ==
    LET q == dict[keyword] IN
    IF \/ q = <<>>
       \/ q[1].last_time = 0
       \/ (market_type # NoFilter /\ q[1].classify # market_type)
    THEN <<>>
    ELSE IF Expired(t, q[1].last_time) THEN <<>>
    ELSE <<QuoteOfEntry(q[1])>>

\* A lookup that deletes last_time from the entry itself.
LookedUpDictNoCopy(dict, keyword) ==
    [dict EXCEPT ![keyword] = <<[@[1] EXCEPT !.last_time = 0]>>]

\* The dict after a hit of search_quote_locally: _q = q.copy() and
\* del _q["last_time"] (lines 247-249) work on a copy of the entry.
LookedUpDict(dict, keyword) == dict

\* A comprehension that filters by exact symbol only.
KeptItemsAnyMarket(keyword, market_type, symbol_mode) ==
    {item \in Items : ~symbol_mode \/ keyword = item.Code}

\* The candidates search_quote keeps (lines 188-198).
KeptItems(keyword, market_type, symbol_mode) ==
    {item \in Items :
        /\ (~symbol_mode \/ keyword = item.Code)
        /\ (market_type = NoFilter \/ market_type = item.Classify)}

\* A save that keeps an entry the keyword already has.
SavedDictIfAbsent(dict, t, keyword, quotes) ==
    IF quotes = <<>> \/ dict[keyword] # <<>> THEN dict
    ELSE [dict EXCEPT ![keyword] = <<EntryOf(quotes[1], t)>>]

\* A save that drops the keyword's entry when it is given no quote.
SavedDictDropsOnMiss(dict, t, keyword, quotes) ==
    IF quotes = <<>> THEN [dict EXCEPT ![keyword] = <<>>]
    ELSE [dict EXCEPT ![keyword] = <<EntryOf(quotes[1], t)>>]

\* save_search_result: the first quote, if any, overwrites the keyword's entry.
SavedDict(dict, t, keyword, quotes) ==
    IF quotes = <<>> THEN dict
    ELSE [dict EXCEPT ![keyword] = <<EntryOf(quotes[1], t)>>]

EmptyDict == [k \in Keywords |-> <<>>]

\* No call in progress: the caller holds no result.
NoCall == [keyword |-> "", market_type |-> NoFilter, count |-> 0,
           use_local |-> FALSE, symbol_mode |-> FALSE]

NoResult == [kind |-> "None", quotes |-> <<>>]

\* The call ended by an exception, which its caller gets.
RaisedResult == [kind |-> "Exception", quotes |-> <<>>]

\* An except clause that matches no decode error.
DecodeErrorNeverCaught == FALSE

\* except json.JSONDecodeError (line 181) matches what Response.json()
\* raises for a body that is not JSON when requests decodes with the
\* standard json module (the exception is json.JSONDecodeError or a subclass
\* of it); with simplejson installed, requests raises simplejson's
\* JSONDecodeError, which is a ValueError and not a json.JSONDecodeError.
DecodeErrorCaught == ~simplejson

\* search_quote(keyword, market_type, count, use_local, quote_symbol_mode=...)
\* with the search endpoint answering a body that parses or not, and
\* `items` in a body that parses.
search_quote(keyword, market_type, count, use_local, symbol_mode, parses, items) ==
    LET local == IF use_local /\ count = 1
                 THEN search_quote_locally(SEARCH_RESULT_DICT, now, keyword, market_type)
                 ELSE <<>>
        quotes == SelectSeq2(items, KeptItems(keyword, market_type, symbol_mode), 1)
        qs == [i \in 1..Len(quotes) |-> QuoteOf(quotes[i])]
    IN
    /\ call = NoCall
    /\ call' = [keyword |-> keyword, market_type |-> market_type, count |-> count,
                use_local |-> use_local, symbol_mode |-> symbol_mode]
    /\ IF local # <<>>
       THEN /\ ret' = [kind |-> "Quote", quotes |-> local]
            /\ requested' = FALSE
            /\ response' = "none"
            /\ SEARCH_RESULT_DICT' = LookedUpDict(SEARCH_RESULT_DICT, keyword)
            /\ UNCHANGED cacheFile
       ELSE /\ requested' = TRUE
            /\ IF ~parses
               THEN /\ response' = "unparsable"
                    /\ ret' = IF DecodeErrorCaught THEN NoResult ELSE RaisedResult
                    /\ UNCHANGED <<SEARCH_RESULT_DICT, cacheFile>>
               ELSE /\ response' = "json"
                    /\ IF items # <<>>
                       THEN /\ SEARCH_RESULT_DICT' = SavedDict(SEARCH_RESULT_DICT, now, keyword, Prefix(qs, 1))
                            /\ cacheFile' = <<SEARCH_RESULT_DICT'>>
                            /\ ret' = IF count = 1
                                      THEN (IF Len(qs) >= 1
                                            THEN [kind |-> "Quote", quotes |-> <<qs[1]>>]
                                            ELSE NoResult)
                                      ELSE [kind |-> "List", quotes |-> Prefix(qs, count)]
                       ELSE /\ ret' = NoResult
                            /\ UNCHANGED <<SEARCH_RESULT_DICT, cacheFile>>
    /\ UNCHANGED <<now, simplejson>>
    /\ UNCHANGED <<batchVars, numericVars, getterVars, fileVars, historyCall>>

\* A caller resolves a keyword.
SearchQuote ==
    \E keyword \in Keywords, market_type \in MarketTypeValues \cup {NoFilter},
       count \in {1, 2}, use_local \in BOOLEAN, symbol_mode \in BOOLEAN,
       parses \in BOOLEAN, items \in Responses :
        /\ ~parses => items = <<>>
        /\ search_quote(keyword, market_type, count, use_local, symbol_mode, parses, items)
        /\ UNCHANGED quoteIdCall

\* The caller has taken the result; the next call may start.
Return ==
    /\ call # NoCall
    /\ call' = NoCall
    /\ ret' = NoResult
    /\ requested' = FALSE
    /\ response' = "none"
    /\ UNCHANGED <<SEARCH_RESULT_DICT, cacheFile, now, simplejson>>
    /\ UNCHANGED <<batchVars, numericVars, getterVars, fileVars, entryVars>>

\* Between calls the clock advances by a whole cache lifetime, or by one
\* second past a multiple of it (the two sides of the expiry test).
Tick ==
    /\ call = NoCall
    /\ \E d \in {1, max_ts} :
        /\ d = 1 => ((now - T0) % max_ts) = 0
        /\ d = max_ts => ((now - T0) \div max_ts) < MaxSpans
        /\ now' = now + d
    /\ UNCHANGED <<SEARCH_RESULT_DICT, cacheFile, call, ret, requested, response, simplejson>>
    /\ UNCHANGED <<batchVars, numericVars, getterVars, fileVars, entryVars>>

\* The resolver's variables when no resolution is modelled.
IdleResolve ==
    /\ SEARCH_RESULT_DICT = EmptyDict
    /\ cacheFile = <<>>
    /\ now = T0
    /\ call = NoCall
    /\ ret = NoResult
    /\ requested = FALSE
    /\ response = "none"
    /\ simplejson = FALSE

\* shared/__init__.py: the dict starts empty, or as the content of the cache
\* file, which may hold entries of a version that stored no last_time.  The
\* install is one without simplejson.
InitResolve ==
    /\ \/ /\ SEARCH_RESULT_DICT = EmptyDict
          /\ cacheFile = <<>>
       \/ /\ \E k \in Keywords, q \in Quotes :
                SEARCH_RESULT_DICT = [EmptyDict EXCEPT ![k] = <<LegacyEntry(q)>>]
          /\ cacheFile = <<SEARCH_RESULT_DICT>>
    /\ now = T0
    /\ call = NoCall
    /\ ret = NoResult
    /\ requested = FALSE
    /\ response = "none"
    /\ simplejson = FALSE
    /\ IdleBatch
    /\ IdleNumeric
    /\ IdleEntry
    /\ IdleFile
    /\ IdleGetter

NextResolve == SearchQuote \/ Return \/ Tick

SpecResolve == InitResolve /\ [][NextResolve]_vars

(***************************************************************************)
(* get_quote_id: utils/__init__.py (98-137), under @retry(tries=3,         *)
(* delay=1).  retry calls the function; when it raises, retry counts the   *)
(* failure, raises it to the caller if it was the third, and otherwise     *)
(* sleeps one second and calls the function again.  The seconds slept are  *)
(* not added to `now`: an attempt is repeated only after a local miss, and *)
(* an entry that missed (absent, without last_time, of another market or   *)
(* expired) still misses later.                                            *)
(***************************************************************************)

\* retry with the give-up test one call late.
GivesUpLate(failed, n) == n - failed < 0

\* retry's loop: _tries -= 1; if not _tries: raise
GivesUp(failed, n) == n - failed = 0

\* The stock_code arguments: empty, whitespace only, and the keywords.
StockCodes == {"", " "} \cup Keywords

\* The tries of @retry(tries=3, delay=1) on get_quote_id.
QuoteIdTries == 3

\* len(str(stock_code).strip()) == 0
IsBlank(stock_code) == stock_code \in {"", " "}

\* A caller calls get_quote_id(stock_code, market_type, use_local,
\* suppress_error, quote_symbol_mode=...).
QuoteIdCall ==
    /\ quoteIdCall = NoQuoteIdCall
    /\ call = NoCall
    /\ \E stock_code \in StockCodes, market_type \in MarketTypeValues \cup {NoFilter},
          use_local \in BOOLEAN, suppress_error \in BOOLEAN, symbol_mode \in BOOLEAN :
        quoteIdCall' = [NoQuoteIdCall EXCEPT
                           !.pc = "call", !.stock_code = stock_code,
                           !.market_type = market_type, !.use_local = use_local,
                           !.suppress_error = suppress_error, !.symbol_mode = symbol_mode]
    /\ UNCHANGED <<resolveVars, batchVars, numericVars, getterVars, fileVars, historyCall>>

\* The call raised: retry raises it on when it was the last try, and
\* sleeps before the next call otherwise.
AfterRaise(q) ==
    [q EXCEPT !.fails = @ + 1,
              !.pc = IF GivesUp(q.fails + 1, QuoteIdTries) THEN "raised" ELSE "sleep"]

\* Lines 125-128: the code is empty; "" is returned under suppress_error,
\* and the exception is raised (into retry) otherwise.
QuoteIdInvalid ==
    /\ quoteIdCall.pc = "call"
    /\ IsBlank(quoteIdCall.stock_code)
    /\ quoteIdCall' =
          IF quoteIdCall.suppress_error
          THEN [quoteIdCall EXCEPT !.checks = @ + 1, !.pc = "returned",
                                   !.out = [kind |-> "empty", quote |-> <<>>]]
          ELSE AfterRaise([quoteIdCall EXCEPT !.checks = @ + 1])
    /\ UNCHANGED <<resolveVars, batchVars, numericVars, getterVars, fileVars, historyCall>>

\* A get_quote_id that prints its warning under suppress_error as well.
QuoteIdSearchAlwaysWarns ==
    /\ quoteIdCall.pc = "call"
    /\ ~IsBlank(quoteIdCall.stock_code)
    /\ \E parses \in BOOLEAN, items \in Responses :
        /\ ~parses => items = <<>>
        /\ search_quote(quoteIdCall.stock_code, quoteIdCall.market_type, 1,
                        quoteIdCall.use_local, quoteIdCall.symbol_mode, parses, items)
    /\ quoteIdCall' =
          IF ret'.kind = "Exception"
          THEN AfterRaise([quoteIdCall EXCEPT !.checks = @ + 1, !.requests = @ + 1])
          ELSE [quoteIdCall EXCEPT
                   !.checks = @ + 1,
                   !.requests = @ + (IF requested' THEN 1 ELSE 0),
                   !.pc = "returned",
                   !.out = IF ret'.kind = "Quote"
                           THEN [kind |-> "quote_id", quote |-> ret'.quotes]
                           ELSE [kind |-> "empty", quote |-> <<>>],
                   !.warned = (ret'.kind = "None")]

\* Lines 129-137: search_quote returns a Quote, whose quote_id is returned,
\* or None, for which "" is returned after the warning; or it raises its
\* decode error, which leaves get_quote_id into retry.
QuoteIdSearch ==
    /\ quoteIdCall.pc = "call"
    /\ ~IsBlank(quoteIdCall.stock_code)
    /\ \E parses \in BOOLEAN, items \in Responses :
        /\ ~parses => items = <<>>
        /\ search_quote(quoteIdCall.stock_code, quoteIdCall.market_type, 1,
                        quoteIdCall.use_local, quoteIdCall.symbol_mode, parses, items)
    /\ quoteIdCall' =
          IF ret'.kind = "Exception"
          THEN AfterRaise([quoteIdCall EXCEPT !.checks = @ + 1, !.requests = @ + 1])
          ELSE [quoteIdCall EXCEPT
                   !.checks = @ + 1,
                   !.requests = @ + (IF requested' THEN 1 ELSE 0),
                   !.pc = "returned",
                   !.out = IF ret'.kind = "Quote"
                           THEN [kind |-> "quote_id", quote |-> ret'.quotes]
                           ELSE [kind |-> "empty", quote |-> <<>>],
                   !.warned = (ret'.kind = "None" /\ ~quoteIdCall.suppress_error)]

\* The local lookup missed and the search request raised (no connection,
\* or an answer without QuotationCodeTable): the exception leaves
\* search_quote and get_quote_id, into retry.
QuoteIdSearchRaises ==
    /\ quoteIdCall.pc = "call"
    /\ call = NoCall
    /\ ~IsBlank(quoteIdCall.stock_code)
    /\ \/ ~quoteIdCall.use_local
       \/ search_quote_locally(SEARCH_RESULT_DICT, now, quoteIdCall.stock_code,
                               quoteIdCall.market_type) = <<>>
    /\ quoteIdCall' = AfterRaise([quoteIdCall EXCEPT !.checks = @ + 1, !.requests = @ + 1])
    /\ UNCHANGED <<resolveVars, batchVars, numericVars, getterVars, fileVars, historyCall>>

\* retry's time.sleep(delay) ends and get_quote_id is called again.
QuoteIdWake ==
    /\ quoteIdCall.pc = "sleep"
    /\ quoteIdCall' = [quoteIdCall EXCEPT !.pc = "call", !.sleeps = @ + 1]
    /\ call' = NoCall
    /\ ret' = NoResult
    /\ requested' = FALSE
    /\ response' = "none"
    /\ UNCHANGED <<SEARCH_RESULT_DICT, cacheFile, now, simplejson>>
    /\ UNCHANGED <<batchVars, numericVars, getterVars, fileVars, historyCall>>

\* The caller has the result, or the exception.
QuoteIdReturn ==
    /\ quoteIdCall.pc \in {"returned", "raised"}
    /\ quoteIdCall' = NoQuoteIdCall
    /\ call' = NoCall
    /\ ret' = NoResult
    /\ requested' = FALSE
    /\ response' = "none"
    /\ UNCHANGED <<SEARCH_RESULT_DICT, cacheFile, now, simplejson>>
    /\ UNCHANGED <<batchVars, numericVars, getterVars, fileVars, historyCall>>

\* A caller calls search_quote itself.
DirectSearch == quoteIdCall = NoQuoteIdCall /\ SearchQuote

DirectReturn == quoteIdCall = NoQuoteIdCall /\ Return

\* The cache as loaded: empty, or with one entry, written without
\* last_time or written just now; an install with or without simplejson.
InitQuoteId ==
    /\ \/ /\ SEARCH_RESULT_DICT = EmptyDict
          /\ cacheFile = <<>>
       \/ /\ \E k \in Keywords, q \in Quotes, t \in {0, T0} :
                SEARCH_RESULT_DICT = [EmptyDict EXCEPT ![k] = <<EntryOf(q, t)>>]
          /\ cacheFile = <<SEARCH_RESULT_DICT>>
    /\ now = T0
    /\ call = NoCall
    /\ ret = NoResult
    /\ requested = FALSE
    /\ response = "none"
    /\ simplejson \in BOOLEAN
    /\ IdleBatch
    /\ IdleNumeric
    /\ IdleEntry
    /\ IdleFile
    /\ IdleGetter

NextQuoteId ==
    \/ QuoteIdCall
    \/ QuoteIdInvalid
    \/ QuoteIdSearch
    \/ QuoteIdSearchRaises
    \/ QuoteIdWake
    \/ QuoteIdReturn
    \/ DirectSearch
    \/ DirectReturn

SpecQuoteId == InitQuoteId /\ [][NextQuoteId]_vars

(***************************************************************************)
(* Batch fetch: get_quote_history_multi in common/getter.py (171-220),     *)
(* fund/getter.py (111-133) and futures/getter.py (150-207).               *)
(*                                                                         *)
(* multitasking.task runs each start(code) on a thread of its own;         *)
(* get_active_tasks lists the threads started and not yet ended;           *)
(* wait_for_tasks returns once none is left.  An exception that leaves a   *)
(* task ends that thread only.  retry(tries, delay) calls the function     *)
(* again after each exception until `tries` calls have failed, and then    *)
(* lets the last exception through; tries is a positive number of calls.   *)
(***************************************************************************)

\* Bounds of the batch model.
MaxCodes == 3   \* symbols in one batch
MaxTries == 2   \* the tries argument
MaxDupCodes == 2  \* symbols in a batch that repeats a symbol

Sites == {"common", "fund", "futures"}

\* The tries of @retry(tries=3, delay=1) in fund and futures.
FixedTries == 3

\* The input lists: symbols are opaque keys, written 1, 2, ...  One list
\* stands for all that differ from it only by the names of the symbols (a new
\* symbol is the next unused number).  A list may repeat symbols; the lists
\* that do are the ones of at most MaxDupCodes symbols.
CodeLists ==
    {s \in UNION {[1..n -> 1..n] : n \in 0..MaxCodes} :
        /\ \A i \in 1..Len(s) : \A v \in 1..(s[i] - 1) : \E j \in 1..(i - 1) : s[j] = v
        /\ Len(s) > MaxDupCodes => \A i \in 1..Len(s) : s[i] = i}

\* A thread not yet started.
IdleTask == [pc |-> "idle", fails |-> 0, calls |-> 0]

\* len(multitasking.get_active_tasks())
ActiveTasks == Cardinality({i \in 1..Len(codes) : task[i].pc \in {"ready", "sleep"}})

\* The tries the retry decorator of start is built with.
RetryTries == IF site = "common" THEN tries ELSE FixedTries

\* The rows of the series the endpoint holds for a symbol: none, one or
\* two, by the symbol.
SeriesLen(code) == code % 3

\* The table a single-symbol fetch returns: the rows of the symbol's
\* series, under the index 0, 1, ... of a new DataFrame.
FetchTable(code) ==
    [kind |-> "DataFrame",
     rows |-> [j \in 1..SeriesLen(code) |-> [index |-> j - 1, code |-> code, line |-> j]]]

\* None, which the futures fetch returns when the answer's data is null
\* (futures/getter.py lines 131-133).
NoneValue == [kind |-> "None", rows |-> <<>>]

\* What a single-symbol fetch that does not raise may return.
FetchResults(code) ==
    {FetchTable(code)} \cup (IF site = "futures" THEN {NoneValue} ELSE {})

\* dfs[key] = val on a dict kept in insertion order.
DictPut(d, key, val) ==
    IF \E i \in 1..Len(d) : d[i].key = key
    THEN [i \in 1..Len(d) |-> IF d[i].key = key THEN [key |-> key, val |-> val] ELSE d[i]]
    ELSE Append(d, [key |-> key, val |-> val])

\* The keys of the dict.
DictKeys(d) == {d[i].key : i \in 1..Len(d)}

\* How many times dfs[key] = _df has run: once in each task of that symbol
\* whose fetch returned.
Writes(key) == Cardinality({i \in 1..Len(codes) : codes[i] = key /\ task[i].pc = "done"})

RECURSIVE ConcatTables(_, _)
\* pd.concat(dfs, axis=0, ...): the tables' rows, in dict order.
ConcatTables(d, i) == IF i > Len(d) THEN <<>> ELSE d[i].val.rows \o ConcatTables(d, i + 1)

\* ignore_index=True: the rows are numbered 0, 1, ... anew.
Reindexed(rows) == [p \in 1..Len(rows) |-> [rows[p] EXCEPT !.index = p - 1]]

\* start(code): multitasking.task starts the thread.
StartTask(i) ==
    /\ task' = [task EXCEPT ![i] = [pc |-> "ready", fails |-> 0, calls |-> 0]]
    /\ launched' = i

\* A loop that starts each task without looking at the active tasks.
MainAdmitNoCeiling ==
    /\ pcMain = "loop"
    /\ launched < Len(codes)
    /\ StartTask(launched + 1)
    /\ UNCHANGED pcMain
    /\ UNCHANGED <<site, codes, blank, MAX_CONNECTIONS, tries, return_df, dfs, pbar, result>>
    /\ UNCHANGED <<resolveVars, numericVars, getterVars, fileVars, entryVars>>

\* One turn of the for loop over codes: common sleeps 3 s first when more
\* than MAX_CONNECTIONS tasks are active (lines 210-213).
MainAdmit ==
    /\ pcMain = "loop"
    /\ launched < Len(codes)
    /\ IF site = "common" /\ ActiveTasks > MAX_CONNECTIONS
       THEN /\ pcMain' = "sleep"
            /\ UNCHANGED <<launched, task>>
       ELSE /\ StartTask(launched + 1)
            /\ UNCHANGED pcMain
    /\ UNCHANGED <<site, codes, blank, MAX_CONNECTIONS, tries, return_df, dfs, pbar, result>>
    /\ UNCHANGED <<resolveVars, numericVars, getterVars, fileVars, entryVars>>

\* A loop that goes on to the next symbol after its sleep.
MainWakeSkips ==
    /\ pcMain = "sleep"
    /\ launched' = launched + 1
    /\ pcMain' = "loop"
    /\ UNCHANGED <<site, codes, blank, MAX_CONNECTIONS, tries, return_df, task, dfs, pbar, result>>
    /\ UNCHANGED <<resolveVars, numericVars, getterVars, fileVars, entryVars>>

\* time.sleep(3) ends and start(code) is called without another test.
MainWake ==
    /\ pcMain = "sleep"
    /\ StartTask(launched + 1)
    /\ pcMain' = "loop"
    /\ UNCHANGED <<site, codes, blank, MAX_CONNECTIONS, tries, return_df, dfs, pbar, result>>
    /\ UNCHANGED <<resolveVars, numericVars, getterVars, fileVars, entryVars>>

\* fund only: the test at the head of start, made again on every retry.
TaskThrottle(i) ==
    /\ site = "fund"
    /\ task[i].pc = "ready"
    /\ ActiveTasks >= MAX_CONNECTIONS
    /\ task' = [task EXCEPT ![i].pc = "sleep"]
    /\ UNCHANGED <<site, codes, blank, MAX_CONNECTIONS, tries, return_df, pcMain, launched, dfs, pbar, result>>
    /\ UNCHANGED <<resolveVars, numericVars, getterVars, fileVars, entryVars>>

\* get_quote_id's test of its stock_code (line 125), which common's
\* single-symbol fetch reaches with suppress_error false and no quote-id
\* mode: the fetch of an empty symbol raises before any request.
InvalidCode(code) == code # 0 /\ code = blank

\* A fetch whose last exception reaches the calling thread.
TaskFetchRaisesToCaller(i, ok) ==
    /\ \/ task[i].pc = "sleep"
       \/ /\ task[i].pc = "ready"
          /\ site = "fund" => ActiveTasks < MAX_CONNECTIONS
    /\ InvalidCode(codes[i]) => ~ok
    /\ pcMain \in {"loop", "sleep"}
    /\ IF ok
       THEN /\ task' = [task EXCEPT ![i] = [pc |-> "done", fails |-> @.fails,
                                            calls |-> @.calls + 1]]
            /\ \E _df \in FetchResults(codes[i]) : dfs' = DictPut(dfs, codes[i], _df)
            /\ pbar' = pbar + 1
            /\ UNCHANGED pcMain
       ELSE /\ task' = [task EXCEPT ![i] =
                          [pc |-> IF GivesUp(@.fails + 1, RetryTries) THEN "failed" ELSE "ready",
                           fails |-> @.fails + 1,
                           calls |-> @.calls + 1]]
            /\ pcMain' = IF GivesUp(task[i].fails + 1, RetryTries) THEN "raised" ELSE pcMain
            /\ UNCHANGED <<dfs, pbar>>
    /\ UNCHANGED <<site, codes, blank, MAX_CONNECTIONS, tries, return_df, launched, result>>
    /\ UNCHANGED <<resolveVars, numericVars, getterVars, fileVars, entryVars>>

\* One call of the single-symbol fetch by task i, which returns a table
\* (ok) or raises.  In fund the fetch is get_quote_history, itself under
\* retry(tries=3): it raises when its request failed three times.  In
\* common it is get_quote_history_single, which raises for an empty symbol.
TaskFetch(i, ok) ==
    /\ \/ task[i].pc = "sleep"
       \/ /\ task[i].pc = "ready"
          /\ site = "fund" => ActiveTasks < MAX_CONNECTIONS
    /\ InvalidCode(codes[i]) => ~ok
    /\ IF ok
       THEN /\ task' = [task EXCEPT ![i] = [pc |-> "done", fails |-> @.fails,
                                            calls |-> @.calls + 1]]
            /\ \E _df \in FetchResults(codes[i]) : dfs' = DictPut(dfs, codes[i], _df)
            /\ pbar' = pbar + 1
       ELSE /\ task' = [task EXCEPT ![i] =
                          [pc |-> IF GivesUp(@.fails + 1, RetryTries) THEN "failed" ELSE "ready",
                           fails |-> @.fails + 1,
                           calls |-> @.calls + 1]]
            /\ UNCHANGED <<dfs, pbar>>
    /\ UNCHANGED <<site, codes, blank, MAX_CONNECTIONS, tries, return_df, pcMain, launched, result>>
    /\ UNCHANGED <<resolveVars, numericVars, getterVars, fileVars, entryVars>>

\* A loop left as soon as some task has failed.
LoopEndedOnFailure ==
    \/ launched = Len(codes)
    \/ \E i \in 1..Len(codes) : task[i].pc = "failed"

\* The for loop ends when start has been called for every symbol.
LoopEnded == launched = Len(codes)

\* wait_for_tasks that returns once every started task has stored a result.
JoinedWhenAllStored == \A i \in 1..Len(codes) : task[i].pc = "done"

\* wait_for_tasks that does not wait.
JoinedAtOnce == TRUE

\* multitasking.wait_for_tasks(): no started thread is alive.
Joined == ActiveTasks = 0

\* After the loop: wait_for_tasks, pbar.close, and the return; with
\* return_df the tables are concatenated, and pd.concat raises ValueError
\* when there is none.
MainReturn ==
    /\ pcMain = "loop"
    /\ LoopEnded
    /\ Joined
    /\ IF return_df
       THEN IF dfs = <<>>
            THEN /\ pcMain' = "raised"
                 /\ result' = [kind |-> "ValueError", dict |-> <<>>, rows |-> <<>>]
            ELSE /\ pcMain' = "returned"
                 /\ result' = [kind |-> "DataFrame", dict |-> <<>>,
                               rows |-> Reindexed(ConcatTables(dfs, 1))]
       ELSE /\ pcMain' = "returned"
            /\ result' = [kind |-> "dict", dict |-> dfs, rows |-> <<>>]
    /\ UNCHANGED <<site, codes, blank, MAX_CONNECTIONS, tries, return_df, launched, task, dfs, pbar>>
    /\ UNCHANGED <<resolveVars, numericVars, getterVars, fileVars, entryVars>>

\* A call of get_quote_history_multi: one of the symbols may be the empty
\* string (in common, whose fetch validates it); the ceiling is 1, the number of
\* symbols, or one more; tries is an argument read by common alone (futures
\* takes it, at its default here, and does not read it); futures takes no
\* return_df.  The state is the one at the for loop: dfs and pbar are made,
\* and in futures update_local_futures_info() (line 191) has returned.
InitBatch ==
    /\ site \in Sites
    /\ codes \in CodeLists
    /\ blank \in IF site = "common" THEN {0} \cup {codes[i] : i \in 1..Len(codes)} ELSE {0}
    /\ MAX_CONNECTIONS \in IF site = "futures" THEN {1}
                           ELSE {1, Len(codes), Len(codes) + 1} \ {0}
    /\ tries \in IF site = "common" THEN 1..MaxTries ELSE {FixedTries}
    /\ return_df \in IF site = "futures" THEN {FALSE} ELSE BOOLEAN
    /\ pcMain = "loop"
    /\ launched = 0
    /\ task = [i \in 1..Len(codes) |-> IdleTask]
    /\ dfs = <<>>
    /\ pbar = 0
    /\ result = NoBatchResult
    /\ IdleResolve
    /\ IdleNumeric
    /\ IdleEntry
    /\ IdleFile
    /\ IdleGetter

\* A step of one of the task threads.
Throttle == \E i \in 1..Len(codes) : TaskThrottle(i)

Fetch == \E i \in 1..Len(codes), ok \in BOOLEAN : TaskFetch(i, ok)

NextBatch ==
    \/ MainAdmit
    \/ MainWake
    \/ Throttle
    \/ Fetch
    \/ MainReturn

SpecBatch == InitBatch /\ [][NextBatch]_vars

\* While some thread can take a step, one eventually does: the scheduler
\* runs the threads, every sleep ends, and every fetch returns or raises.
FairBatch == WF_vars(NextBatch)

SpecBatchFair == SpecBatch /\ FairBatch

(***************************************************************************)
(* get_quote_history: common/getter.py (223-313) and futures/getter.py     *)
(* (210-313).  The argument is a str, a list, another object with          *)
(* __iter__ (a tuple), or an object without (an int, None).                *)
(***************************************************************************)

ArgTypes == {"str", "list", "tuple", "other"}

\* hasattr(codes, "__iter__"): a str has __iter__ too.
HasIter(type) == type \in {"str", "list", "tuple"}

\* The default of get_quote_history_multi's tries, which get_quote_history
\* does not pass.
DefaultTries == 3

\* A dispatch that looks for __iter__ before it looks for str.
DispatchPathIterFirst(type) ==
    IF HasIter(type) THEN "multi"
    ELSE IF type = "str" THEN "single"
    ELSE "TypeError"

\* if isinstance(codes, str) ... elif hasattr(codes, "__iter__") ... raise
DispatchPath(type) ==
    IF type = "str" THEN "single"
    ELSE IF HasIter(type) THEN "multi"
    ELSE "TypeError"

\* A str: get_quote_history_single is called.  In common it begins with
\* get_quote_id(stock_code=code, ...); in futures the secid is requested.
HistorySingle ==
    /\ historyCall.pc = "call"
    /\ DispatchPath(historyCall.type) = "single"
    /\ IF historyCall.site = "common"
       THEN /\ historyCall' = [historyCall EXCEPT !.pc = "resolve", !.path = "single"]
            /\ \E market_type \in MarketTypeValues \cup {NoFilter}, use_id_cache \in BOOLEAN,
                  suppress_error \in BOOLEAN, symbol_mode \in BOOLEAN :
                quoteIdCall' = [NoQuoteIdCall EXCEPT
                                   !.pc = "call", !.stock_code = historyCall.code,
                                   !.market_type = market_type, !.use_local = use_id_cache,
                                   !.suppress_error = suppress_error,
                                   !.symbol_mode = symbol_mode]
       ELSE /\ historyCall' = [historyCall EXCEPT !.pc = "fetch", !.path = "single"]
            /\ UNCHANGED quoteIdCall
    /\ UNCHANGED <<resolveVars, batchVars, numericVars, getterVars, fileVars>>

\* get_quote_id has returned the quote id (or ""), or raised.
HistoryResolved ==
    /\ historyCall.pc = "resolve"
    /\ quoteIdCall.pc \in {"returned", "raised"}
    /\ historyCall' =
          IF quoteIdCall.pc = "raised"
          THEN [historyCall EXCEPT !.pc = "raised", !.out = "Exception"]
          ELSE [historyCall EXCEPT !.pc = "fetch"]
    /\ UNCHANGED <<resolveVars, batchVars, numericVars, getterVars, fileVars, quoteIdCall>>

\* What the series request of the single-symbol fetch ends in: a table
\* (common's is empty when the answer has no klines), an exception, and in
\* futures None when the answer's data is null (lines 131-133).
FetchOutcomes(s) == {"DataFrame", "Exception"} \cup (IF s = "futures" THEN {"None"} ELSE {})

\* The series request of get_quote_history_single and its result.
HistoryFetch ==
    /\ historyCall.pc = "fetch"
    /\ \E o \in FetchOutcomes(historyCall.site) :
        historyCall' = [historyCall EXCEPT
                           !.requests = @ + 1,
                           !.pc = IF o = "Exception" THEN "raised" ELSE "returned",
                           !.out = o]
    /\ UNCHANGED <<resolveVars, batchVars, numericVars, getterVars, fileVars, quoteIdCall>>

\* Another iterable: codes = list(codes), and get_quote_history_multi runs.
HistoryMulti ==
    /\ historyCall.pc = "call"
    /\ DispatchPath(historyCall.type) = "multi"
    /\ historyCall' = [historyCall EXCEPT !.pc = "multi", !.path = "multi"]
    /\ codes' = historyCall.val
    /\ task' = [i \in 1..Len(historyCall.val) |-> IdleTask]
    /\ pcMain' = "loop"
    /\ UNCHANGED <<site, blank, MAX_CONNECTIONS, tries, return_df, launched, dfs, pbar, result>>
    /\ UNCHANGED <<resolveVars, numericVars, getterVars, fileVars, quoteIdCall>>

\* Anything else: raise TypeError.
HistoryTypeError ==
    /\ historyCall.pc = "call"
    /\ DispatchPath(historyCall.type) = "TypeError"
    /\ historyCall' = [historyCall EXCEPT !.pc = "raised", !.out = "TypeError"]
    /\ UNCHANGED <<resolveVars, batchVars, numericVars, getterVars, fileVars, quoteIdCall>>

\* A call of get_quote_history in common or futures.
InitHistory ==
    /\ \E s \in {"common", "futures"}, type \in ArgTypes :
        /\ historyCall \in
              {[NoHistoryCall EXCEPT !.pc = "call", !.site = s, !.type = type,
                                     !.code = c, !.val = v] :
                  c \in IF type = "str" THEN StockCodes ELSE {""},
                  v \in IF type \in {"list", "tuple"} THEN CodeLists ELSE {<<>>}}
        /\ site = s
        /\ MAX_CONNECTIONS \in IF s = "futures" THEN {1}
                               ELSE {1, Len(historyCall.val), Len(historyCall.val) + 1} \ {0}
        /\ tries = IF s = "common" THEN DefaultTries ELSE FixedTries
        /\ return_df \in IF s = "common" /\ type \in {"list", "tuple"} THEN BOOLEAN ELSE {FALSE}
        /\ \/ /\ SEARCH_RESULT_DICT = EmptyDict
              /\ cacheFile = <<>>
           \/ /\ s = "common" /\ type = "str"
              /\ \E k \in Keywords, q \in Quotes, t0 \in {0, T0} :
                    SEARCH_RESULT_DICT = [EmptyDict EXCEPT ![k] = <<EntryOf(q, t0)>>]
              /\ cacheFile = <<SEARCH_RESULT_DICT>>
    /\ codes = <<>>
    /\ blank = 0
    /\ pcMain = "none"
    /\ launched = 0
    /\ task = <<>>
    /\ dfs = <<>>
    /\ pbar = 0
    /\ result = NoBatchResult
    /\ now = T0
    /\ call = NoCall
    /\ ret = NoResult
    /\ requested = FALSE
    /\ response = "none"
    /\ simplejson = FALSE
    /\ quoteIdCall = NoQuoteIdCall
    /\ IdleNumeric
    /\ IdleGetter
    /\ IdleFile

NextHistory ==
    \/ HistorySingle
    \/ HistoryResolved
    \/ HistoryFetch
    \/ HistoryMulti
    \/ HistoryTypeError
    \/ QuoteIdInvalid
    \/ QuoteIdSearch
    \/ QuoteIdSearchRaises
    \/ QuoteIdWake
    \/ MainAdmit
    \/ MainWake
    \/ Fetch
    \/ MainReturn

SpecHistory == InitHistory /\ [][NextHistory]_vars

(***************************************************************************)
(* to_numeric: utils/__init__.py (20-73)                                   *)
(*                                                                         *)
(* A cell is a str, an int or a float.  A str is its sequence of           *)
(* characters; a float is the decimal n / 10^d with d as small as it can   *)
(* be (0.0 and -0.0, which compare equal, are one value).                  *)
(***************************************************************************)

\* Bound of the to_numeric model.
MaxLen == 2     \* characters of a str cell

\* to_numeric's ignore list, transliterated: 股票代码, 基金代码, 代码, 市场类型,
\* 市场编号, 债券代码, 行情ID, 正股代码.
ignoreWithoutCode ==
    {"StockCode", "FundCode", "MarketType", "MarketNumber",
     "BondCode", "QuoteID", "UnderlyingStockCode"}

ignore ==
    {"StockCode", "FundCode", "Code", "MarketType", "MarketNumber",
     "BondCode", "QuoteID", "UnderlyingStockCode"}

\* A column that is not in the list (最新价).
OtherLabels == {"Price"}

\* The characters of the modelled strings: two digits, a letter, the
\* decimal point and the sign.
Alphabet == {"0", "1", "a", ".", "-"}

Digits == <<"0", "1", "2", "3", "4", "5", "6", "7", "8", "9">>

DigitChars == {Digits[i] : i \in 1..Len(Digits)}

\* The value of a digit character.
DigitValue(c) == (CHOOSE i \in 1..Len(Digits) : Digits[i] = c) - 1

Letters == {"a"}

StrCell(s) == [t |-> "str", s |-> s, n |-> 0, d |-> 0]

IntCell(n) == [t |-> "int", s |-> <<>>, n |-> n, d |-> 0]

\* An int of more decimal digits than sys.get_int_max_str_digits() allows
\* where the interpreter has that limit (4300 by default), such as 10**4300.
HugeInt == [t |-> "hugeint", s |-> <<>>, n |-> 1, d |-> 0]

RECURSIVE Normal(_, _)
\* n / 10^d with the trailing zeros of the fraction dropped.
Normal(n, d) == IF d > 0 /\ n % 10 = 0 THEN Normal(n \div 10, d - 1) ELSE [n |-> n, d |-> d]

FloatCell(n, d) == [t |-> "float", s |-> <<>>, n |-> Normal(n, d).n, d |-> Normal(n, d).d]

RECURSIVE Pow10(_)
Pow10(d) == IF d = 0 THEN 1 ELSE 10 * Pow10(d - 1)

RECURSIVE StrNat(_)
\* The decimal digits of a natural number.
StrNat(n) == IF n < 10 THEN <<Digits[n + 1]>> ELSE StrNat(n \div 10) \o <<Digits[(n % 10) + 1]>>

RECURSIVE StrFrac(_, _)
\* The d digits of the fraction f / 10^d.
StrFrac(f, d) == IF d = 0 THEN <<>> ELSE StrFrac(f \div 10, d - 1) \o <<Digits[(f % 10) + 1]>>

Abs(n) == IF n < 0 THEN -n ELSE n

\* str(o) raises ValueError: an int beyond the interpreter's digit limit.
StrRaises(o) == o.t = "hugeint" /\ intStrLimit

\* str(o), where it returns; of a HugeInt, the first of its digits (the
\* others are digits as well).
StrOf(o) ==
    IF o.t = "str" THEN o.s
    ELSE IF o.t = "hugeint" THEN <<"1", "0", "0">>
    ELSE IF o.t = "int" THEN (IF o.n < 0 THEN <<"-">> ELSE <<>>) \o StrNat(Abs(o.n))
    ELSE (IF o.n < 0 THEN <<"-">> ELSE <<>>)
         \o StrNat(Abs(o.n) \div Pow10(o.d))
         \o <<".">>
         \o (IF o.d = 0 THEN <<"0">> ELSE StrFrac(Abs(o.n) % Pow10(o.d), o.d))

\* re.findall("\d", str(o)) is not empty
HasDigit(s) == \E i \in 1..Len(s) : s[i] \in DigitChars

\* str.isalnum
IsAlnum(s) == s # <<>> /\ \A i \in 1..Len(s) : s[i] \in DigitChars \cup Letters

RECURSIVE NatOf(_)
\* The number a sequence of digits spells (0 for none).
NatOf(s) == IF s = <<>> THEN 0 ELSE 10 * NatOf(SubSeq(s, 1, Len(s) - 1)) + DigitValue(s[Len(s)])

AllDigits(s) == \A i \in 1..Len(s) : s[i] \in DigitChars

\* int(o): <<cell>>, or <<>> when it raises.
IntOf(o) ==
    IF o.t \in {"int", "hugeint"} THEN <<o>>
    ELSE IF o.t = "float"
         THEN <<IntCell((IF o.n < 0 THEN -1 ELSE 1) * (Abs(o.n) \div Pow10(o.d)))>>
    ELSE IF o.s # <<>> /\ AllDigits(o.s) THEN <<IntCell(NatOf(o.s))>>
    ELSE <<>>

\* float(o): <<cell>>, or <<>> when it raises.  A str is an optional sign,
\* then digits with at most one point among them and a digit somewhere.
FloatOf(o) ==
    IF o.t = "float" THEN <<o>>
    ELSE IF o.t = "int" THEN <<FloatCell(o.n, 0)>>
    ELSE IF o.t = "hugeint" THEN <<>>
    ELSE LET neg == o.s # <<>> /\ o.s[1] = "-"
             body == IF neg THEN SubSeq(o.s, 2, Len(o.s)) ELSE o.s
             points == {i \in 1..Len(body) : body[i] = "."}
             digits == SelectSeq(body, LAMBDA c : c # ".")
             d == IF points = {} THEN 0 ELSE Len(body) - (CHOOSE i \in points : TRUE)
         IN  IF digits # <<>> /\ AllDigits(digits) /\ Cardinality(points) <= 1
             THEN <<FloatCell((IF neg THEN -1 ELSE 1) * NatOf(digits), d)>>
             ELSE <<>>

\* convert with its two parses exchanged.
convertSwapped(o) ==
    IF ~HasDigit(StrOf(o)) THEN o
    ELSE LET parsed == IF IsAlnum(StrOf(o)) THEN FloatOf(o) ELSE IntOf(o)
         IN  IF parsed = <<>> THEN o ELSE parsed[1]

\* convert (lines 61-71), where str(o) returns.
convert(o) ==
    IF ~HasDigit(StrOf(o)) THEN o
    ELSE LET parsed == IF IsAlnum(StrOf(o)) THEN IntOf(o) ELSE FloatOf(o)
         IN  IF parsed = <<>> THEN o ELSE parsed[1]

\* The column Series.apply builds from the converted cells: where all are
\* numbers and one is a float, pandas makes the column float64.
Inferred(cells) ==
    IF /\ \A i \in 1..Len(cells) : cells[i].t \in {"int", "float"}
       /\ \E i \in 1..Len(cells) : cells[i].t = "float"
    THEN [i \in 1..Len(cells) |-> FloatOf(cells[i])[1]]
    ELSE cells

\* values[column].apply(convert)
Apply(cells) == Inferred([i \in 1..Len(cells) |-> convert(cells[i])])

\* to_numeric's run on what func returned (lines 47-59); a Series holds one
\* cell under each index label.
Converted(k, v) ==
    [label \in DOMAIN v |->
        IF label \in ignore THEN v[label]
        ELSE IF k = "DataFrame" THEN Apply(v[label])
        ELSE <<convert(v[label][1])>>]

\* Some cell that run hands to convert makes str(o) raise; the exception
\* leaves convert (line 62 is outside its try) and run.
ConvertRaises(v) ==
    \E label \in DOMAIN v :
        label \notin ignore /\ \E i \in 1..Len(v[label]) : StrRaises(v[label][i])

\* The decorated function is called, and called again on what it returned.
Run ==
    /\ kind # "none"
    /\ runs < 2
    /\ failure = "none"
    /\ IF ConvertRaises(values)
       THEN /\ failure' = "ValueError"
            /\ UNCHANGED <<values, first, runs>>
       ELSE /\ values' = Converted(kind, values)
            /\ first' = IF runs = 0 THEN values' ELSE first
            /\ runs' = runs + 1
            /\ UNCHANGED failure
    /\ UNCHANGED <<kind, orig, intStrLimit>>
    /\ UNCHANGED <<resolveVars, batchVars, entryVars, getterVars, fileVars>>

\* The str cells of at most MaxLen characters.
Strings == UNION {[1..n -> Alphabet] : n \in 0..MaxLen}

\* The cells a function may return: every str, and some ints and floats,
\* held as Python objects (a column or Series of dtype object).
Cells ==
    {StrCell(s) : s \in Strings}
    \cup {IntCell(10), IntCell(-1), FloatCell(1, 1), FloatCell(-10, 1), HugeInt}

\* The cells of a DataFrame's second row.
Companions == {StrCell(<<"1">>), StrCell(<<"a">>), StrCell(<<".", "1">>), IntCell(-1)}

\* What func returns: a Series with one labelled cell, a DataFrame with one
\* column of two rows, or either with a listed and an unlisted label.
InitNumeric ==
    /\ kind \in {"DataFrame", "Series"}
    /\ \/ \E label \in ignore \cup OtherLabels, c \in Cells, c2 \in Companions :
            orig = (label :> IF kind = "Series" THEN <<c>> ELSE <<c, c2>>)
       \/ \E c \in Companions, c2 \in Companions, p \in Companions, p2 \in Companions :
            orig = ("Code" :> IF kind = "Series" THEN <<c>> ELSE <<c, c2>>)
                   @@ ("Price" :> IF kind = "Series" THEN <<p>> ELSE <<p, p2>>)
    /\ values = orig
    /\ first = <<>>
    /\ runs = 0
    /\ intStrLimit \in BOOLEAN
    /\ failure = "none"
    /\ IdleResolve
    /\ IdleBatch
    /\ IdleEntry
    /\ IdleFile
    /\ IdleGetter

NextNumeric == Run

SpecNumeric == InitNumeric /\ [][NextNumeric]_vars

(***************************************************************************)
(* Single-symbol series getters: common/getter.py get_quote_history_single *)
(* (109-168), get_history_bill (316-361), get_today_bill (364-411) and     *)
(* get_latest_ndays_quote (549-600).  Each                                 *)
(* requests one endpoint with the quote id and builds a table from the     *)
(* answer's list of comma-joined rows.  jsonpath(...) returns the list of  *)
(* matches, or False when nothing matches.  The tables are empty or hold   *)
(* strings, and to_numeric, which decorates the getters, leaves their      *)
(* column lists as they are.                                               *)
(***************************************************************************)

\* Bound of the getters' model.
MaxRows == 2    \* rows of the series in one answer

SeriesGetters ==
    {"get_quote_history_single", "get_history_bill", "get_today_bill",
     "get_latest_ndays_quote"}

\* The series columns: the values of EASTMONEY_KLINE_FIELDS,
\* EASTMONEY_HISTORY_BILL_FIELDS, the list in get_today_bill and
\* EASTMONEY_KLINE_NDAYS_FIELDS, transliterated and cut to their first three.
SeriesColumns(getter) ==
    IF getter = "get_quote_history_single" THEN <<"Date", "Open", "Close">>
    ELSE IF getter = "get_history_bill" THEN <<"Date", "MainNetInflow", "SmallNetInflow">>
    ELSE IF getter = "get_today_bill" THEN <<"Time", "MainNetInflow", "SmallNetInflow">>
    ELSE <<"Date", "Open", "Close">>

\* The quote ids, as their parts between the dots: "" (what get_quote_id
\* returns for a symbol it did not resolve) and "1.600519".
QuoteIds == {<<"">>, <<"1", "600519">>}

\* quote_id.split(".")[-1]
LastPart(quote_id) == quote_id[Len(quote_id)]

\* The answers: {"data": null}, or a data object with or without its name
\* and with or without its series (klines, or trends for the latest
\* days), which has 0 to MaxRows rows.
SeriesResponses ==
    {[data |-> FALSE, name |-> <<>>, series |-> <<>>]}
    \cup {[data |-> TRUE, name |-> nm, series |-> sr] :
            nm \in {<<>>, <<"Name1">>},
            sr \in {<<>>} \cup {<<[i \in 1..n |-> i]>> : n \in 0..MaxRows}}

\* jsonpath(json_response, "$..name"): the matches, <<>> for False.
JsonPathName(answer) == answer.name

\* jsonpath(json_response, "$..klines[:]") (or trends): the rows, <<>> for
\* False, which is what an absent and an empty list give.
JsonPathSeries(answer) == IF answer.series = <<>> THEN <<>> ELSE answer.series[1]

\* columns.insert(0, label) and df.insert(0, label, value), on the column list
InsertFirst(columns, label) == <<label>> \o columns

\* The table of the two branches: the column list with 代码 and then 名称
\* put first, and the rows.
SeriesTable(getter, rows, name, code) ==
    [kind |-> "DataFrame",
     columns |-> InsertFirst(InsertFirst(SeriesColumns(getter), "Code"), "Name"),
     rows |-> rows, name |-> name, code |-> code]

SeriesRaised(exception) ==
    [kind |-> exception, columns |-> <<>>, rows |-> <<>>, name |-> <<>>, code |-> <<>>]

\* What the getter does with the answer.  get_today_bill takes
\* jsonpath(json_response, "$..name")[0] before it looks at the rows (line
\* 400); get_history_bill takes it after (line 355); the two others read
\* json_response["data"]["name"] after (lines 162 and 594).
SeriesResult(getter, quote_id, answer) ==
    LET klines == JsonPathSeries(answer)
        names == JsonPathName(answer)
        code == <<LastPart(quote_id)>>
    IN  IF getter = "get_today_bill"
        THEN IF names = <<>> THEN SeriesRaised("TypeError")
             ELSE IF klines = <<>> THEN SeriesTable(getter, <<>>, <<>>, <<>>)
             ELSE SeriesTable(getter, klines, names, code)
        ELSE IF klines = <<>> THEN SeriesTable(getter, <<>>, <<>>, <<>>)
             ELSE IF names = <<>>
                  THEN SeriesRaised(IF getter = "get_history_bill" THEN "TypeError" ELSE "KeyError")
                  ELSE SeriesTable(getter, klines, names, code)

\* The getter gets its answer and returns or raises.
SeriesGet ==
    /\ seriesCall.pc = "call"
    /\ seriesCall' = [seriesCall EXCEPT
                         !.pc = "done",
                         !.out = SeriesResult(seriesCall.getter, seriesCall.quote_id,
                                              seriesCall.response)]
    /\ UNCHANGED <<BASE_INFO_CACHE, dealCall>>
    /\ UNCHANGED <<resolveVars, batchVars, numericVars, entryVars, fileVars>>

\* A getter is called with a symbol that resolved to quote_id, and the
\* endpoint gives its answer.
InitSeries ==
    /\ seriesCall \in {[NoSeriesCall EXCEPT !.pc = "call", !.getter = g, !.quote_id = q,
                                            !.response = r] :
                           g \in SeriesGetters, q \in QuoteIds, r \in SeriesResponses}
    /\ BASE_INFO_CACHE = [q \in DealQuoteIds |-> <<>>]
    /\ dealCall = NoDealCall
    /\ IdleResolve
    /\ IdleBatch
    /\ IdleNumeric
    /\ IdleEntry
    /\ IdleFile

NextSeries == SeriesGet

SpecSeries == InitSeries /\ [][NextSeries]_vars

(***************************************************************************)
(* get_deal_detail: common/getter.py (437-485), with get_base_info         *)
(* (414-434) and shared.BASE_INFO_CACHE.                                   *)
(***************************************************************************)

\* The Series get_base_info returns when the answer's data is empty: every
\* field is NaN.
NaNInfo == [code |-> "nan", name |-> "nan"]

\* What get_base_info returns: the fields 代码 and 名称 of the answer (the
\* name as it is at the time of the request), or the Series of NaN.
BaseInfos(quote_id) ==
    {NaNInfo, [code |-> quote_id, name |-> "Name1"], [code |-> quote_id, name |-> "Name2"]}

\* A caller calls get_deal_detail(quote_id).
DealCall ==
    /\ dealCall = NoDealCall
    /\ \E quote_id \in DealQuoteIds :
        dealCall' = [NoDealCall EXCEPT !.pc = "call", !.quote_id = quote_id,
                                       !.cached = (BASE_INFO_CACHE[quote_id] # <<>>)]
    /\ UNCHANGED <<seriesCall, BASE_INFO_CACHE>>
    /\ UNCHANGED <<resolveVars, batchVars, numericVars, entryVars, fileVars>>

\* dict.get(key, default) of a mapping kept as key -> <<>> or <<value>>.
DictGet(d, key, default) == IF d[key] # <<>> THEN d[key][1] ELSE default

\* Line 458, BASE_INFO_CACHE.get(quote_id, get_base_info(quote_id)): the
\* arguments are evaluated before get is called, so get_base_info makes
\* its request in every call; it returns `fresh`, or raises.  Then the
\* Series is stored (line 459), and unless its 代码 is NaN the details are
\* requested.
GetDealDetail ==
    /\ dealCall.pc = "call"
    /\ \E base_ok \in BOOLEAN, fresh \in BaseInfos(dealCall.quote_id), detail_ok \in BOOLEAN :
        IF ~base_ok
        THEN /\ dealCall' = [dealCall EXCEPT !.pc = "done", !.base_requests = @ + 1,
                                             !.out = "Exception"]
             /\ UNCHANGED BASE_INFO_CACHE
        ELSE LET base_info == DictGet(BASE_INFO_CACHE, dealCall.quote_id, fresh) IN
             /\ BASE_INFO_CACHE' = [BASE_INFO_CACHE EXCEPT ![dealCall.quote_id] = <<base_info>>]
             /\ dealCall' =
                   IF base_info.code = "nan"
                   THEN [dealCall EXCEPT !.pc = "done", !.base_requests = @ + 1,
                                         !.base_info = <<base_info>>, !.out = "EmptyDataFrame"]
                   ELSE [dealCall EXCEPT !.pc = "done", !.base_requests = @ + 1,
                                         !.detail_requests = @ + 1,
                                         !.base_info = <<base_info>>,
                                         !.out = IF detail_ok THEN "DataFrame" ELSE "Exception"]
    /\ UNCHANGED seriesCall
    /\ UNCHANGED <<resolveVars, batchVars, numericVars, entryVars, fileVars>>

\* The caller has the table, or the exception.
DealReturn ==
    /\ dealCall.pc = "done"
    /\ dealCall' = NoDealCall
    /\ UNCHANGED <<seriesCall, BASE_INFO_CACHE>>
    /\ UNCHANGED <<resolveVars, batchVars, numericVars, entryVars, fileVars>>

\* shared/__init__.py line 27: the cache starts empty in every process.
InitDeal ==
    /\ BASE_INFO_CACHE = [q \in DealQuoteIds |-> <<>>]
    /\ dealCall = NoDealCall
    /\ seriesCall = NoSeriesCall
    /\ IdleResolve
    /\ IdleBatch
    /\ IdleNumeric
    /\ IdleEntry
    /\ IdleFile

NextDeal == DealCall \/ GetDealDetail \/ DealReturn

SpecDeal == InitDeal /\ [][NextDeal]_vars

(***************************************************************************)
(* The cache file under several writers: shared/__init__.py (24-38), which *)
(* a process runs once when it imports the package, and save_search_result *)
(* (utils/__init__.py 254-273), which every online resolution with a       *)
(* candidate list runs, in whatever thread resolves.                       *)
(*                                                                         *)
(* open(path, "w") creates the file or cuts it to no bytes, and gives a    *)
(* handle that writes from offset 0.  json.dump writes into the handle's   *)
(* buffer, and the bytes reach the file when the with block closes the     *)
(* handle (the modelled dicts are far smaller than the buffer).  Bytes     *)
(* written over a longer file leave the rest of it in place.               *)
(***************************************************************************)

\* Bound of the shared file's model.
MaxSavers == 2  \* threads that resolve a keyword, in all processes

\* The length of a keyword as a JSON key.
KeywordLen(k) == IF k = "600519" THEN 6 ELSE 4

RECURSIVE EntriesLen(_, _)
\* The bytes the keys of a dict add to its JSON text (every entry adds the
\* same further bytes, which do not change which of two texts is longer).
EntriesLen(d, ks) ==
    IF ks = {} THEN 0
    ELSE LET k == CHOOSE x \in ks : TRUE
         IN  (IF d[k] # <<>> THEN KeywordLen(k) ELSE 0) + EntriesLen(d, ks \ {k})

\* The length of json.dump's text for a dict: the braces and the entries.
JsonLen(d) == 2 + EntriesLen(d, Keywords)

\* No file.
AbsentFile == [kind |-> "absent", dict |-> EmptyDict, len |-> 0]

\* A file of no bytes.
EmptyFile == [kind |-> "empty", dict |-> EmptyDict, len |-> 0]

\* A file that holds json.dump's text for d.
JsonFile(d) == [kind |-> "json", dict |-> d, len |-> JsonLen(d)]

\* A file that is not JSON: the text for d followed by other bytes.
GarbageFile(d, n) == [kind |-> "garbage", dict |-> d, len |-> n]

\* The file after the text for d is written from offset 0.
Written(f, d) == IF f.len <= JsonLen(d) THEN JsonFile(d) ELSE GarbageFile(d, f.len)

\* The entry a resolution of keyword k saves.
SavedEntry(k) == EntryOf([code |-> k, classify |-> "AStock"], now)

\* A load that takes the dict a broken file begins with.
LoadedDictLenient(f) == f.dict

\* json.load(f) under try/except: the dict of a file that parses, and the
\* dict() of line 24 otherwise.
LoadedDict(f) == IF f.kind = "json" THEN f.dict ELSE EmptyDict

\* shared/__init__.py lines 24-36: a process starts.  Without a file the
\* dict is empty; with one, it is what json.load gives, or stays empty when
\* json.load raises, and then the file is to be cut (load_success is False).
ProcLoad(p) ==
    /\ proc[p].pc = "off"
    /\ proc' = [proc EXCEPT ![p] =
                  [pc |-> IF disk.kind \in {"empty", "garbage"} THEN "truncate" ELSE "up",
                   start |-> IF disk.kind = "absent" THEN "absent"
                             ELSE IF disk.kind = "json" THEN "parsed" ELSE "corrupt",
                   loaded |-> LoadedDict(disk),
                   mem |-> LoadedDict(disk)]]
    /\ UNCHANGED <<disk, saver>>
    /\ UNCHANGED <<resolveVars, batchVars, numericVars, entryVars, getterVars>>

\* Lines 37-38: path.open("w").close()
ProcTruncate(p) ==
    /\ proc[p].pc = "truncate"
    /\ disk' = EmptyFile
    /\ proc' = [proc EXCEPT ![p].pc = "up"]
    /\ UNCHANGED saver
    /\ UNCHANGED <<resolveVars, batchVars, numericVars, entryVars, getterVars>>

\* search_quote in thread t, lines 167-170: the local lookup, which ends
\* the resolution on a hit; on a miss the keyword is searched online.
SaverLookup(t) ==
    /\ saver[t].pc = "idle"
    /\ proc[saver[t].proc].pc = "up"
    /\ saver' = [saver EXCEPT ![t].pc =
                    IF search_quote_locally(proc[saver[t].proc].mem, now,
                                            saver[t].keyword, NoFilter) # <<>>
                    THEN "hit" ELSE "online"]
    /\ UNCHANGED <<disk, proc>>
    /\ UNCHANGED <<resolveVars, batchVars, numericVars, entryVars, getterVars>>

\* The search came back with a candidate for the keyword, and
\* save_search_result opens the file (line 265).
SaverOpen(t) ==
    /\ saver[t].pc = "online"
    /\ disk' = EmptyFile
    /\ saver' = [saver EXCEPT ![t].pc = "opened"]
    /\ UNCHANGED proc
    /\ UNCHANGED <<resolveVars, batchVars, numericVars, entryVars, getterVars>>

\* Line 271: SEARCH_RESULT_DICT[keyword] = d
SaverSet(t) ==
    /\ saver[t].pc = "opened"
    /\ proc' = [proc EXCEPT ![saver[t].proc].mem[saver[t].keyword] =
                                <<SavedEntry(saver[t].keyword)>>]
    /\ saver' = [saver EXCEPT ![t].pc = "set"]
    /\ UNCHANGED disk
    /\ UNCHANGED <<resolveVars, batchVars, numericVars, entryVars, getterVars>>

\* A copy that takes the entries of every process's dict.
SnapshotOfAll(p) ==
    [k \in Keywords |->
        IF \E q \in Procs : proc[q].pc = "up" /\ proc[q].mem[k] # <<>>
        THEN <<SavedEntry(k)>> ELSE <<>>]

\* SEARCH_RESULT_DICT.copy() in a thread of process p.
Snapshot(p) == proc[p].mem

\* Line 273: json.dump(SEARCH_RESULT_DICT.copy(), f), into the buffer.
SaverDump(t) ==
    /\ saver[t].pc = "set"
    /\ saver' = [saver EXCEPT ![t].pc = "dumped", ![t].buf = Snapshot(saver[t].proc)]
    /\ UNCHANGED <<disk, proc>>
    /\ UNCHANGED <<resolveVars, batchVars, numericVars, entryVars, getterVars>>

\* The with block ends: the buffer is written and the handle closed.
SaverClose(t) ==
    /\ saver[t].pc = "dumped"
    /\ disk' = Written(disk, saver[t].buf)
    /\ saver' = [saver EXCEPT ![t].pc = "closed"]
    /\ UNCHANGED proc
    /\ UNCHANGED <<resolveVars, batchVars, numericVars, entryVars, getterVars>>

\* The files a start may find: none, one of no bytes, one that is not
\* JSON, and one that holds a dict with no entry or with one.
InitDisks ==
    {AbsentFile, EmptyFile, GarbageFile(EmptyDict, 1), JsonFile(EmptyDict)}
    \cup {JsonFile([EmptyDict EXCEPT ![k] = <<EntryOf([code |-> k, classify |-> "AStock"], T0)>>]) :
            k \in Keywords}

\* One to MaxSavers threads, each in one of the processes and with a
\* keyword to resolve; the first thread is in process 1.  The processes
\* have not started.
InitCacheFile ==
    /\ disk \in InitDisks
    /\ proc = [p \in Procs |-> [pc |-> "off", start |-> "none", loaded |-> EmptyDict,
                                 mem |-> EmptyDict]]
    /\ \E n \in 1..MaxSavers :
        saver \in {sv \in [1..n -> [proc : Procs, keyword : Keywords, pc : {"idle"},
                                     buf : {EmptyDict}]] :
                      /\ sv[1].proc = 1
                      /\ \A i \in 2..n : sv[i - 1].proc <= sv[i].proc}
    /\ IdleResolve
    /\ IdleBatch
    /\ IdleNumeric
    /\ IdleEntry
    /\ IdleGetter

Load == \E p \in Procs : ProcLoad(p)

Truncate == \E p \in Procs : ProcTruncate(p)

Lookup == \E t \in 1..Len(saver) : SaverLookup(t)

Open == \E t \in 1..Len(saver) : SaverOpen(t)

Set == \E t \in 1..Len(saver) : SaverSet(t)

Dump == \E t \in 1..Len(saver) : SaverDump(t)

Close == \E t \in 1..Len(saver) : SaverClose(t)

NextCacheFile == Load \/ Truncate \/ Lookup \/ Open \/ Set \/ Dump \/ Close

SpecCacheFile == InitCacheFile /\ [][NextCacheFile]_vars

(***************************************************************************)
(* Properties of the resolver                                              *)
(***************************************************************************)

\* A search_quote call has just returned to its caller.
Returned == call # NoCall

\* C1: for search_quote(keyword, market_type, count=1, use_local=True), the
\* call returns the cached Quote and issues no search request if and only if
\* the cache holds an entry for keyword with a last_time, now - last_time is
\* at most 259200 s, and no filter is given or the entry's classify equals
\* it; in every other case a search request is issued.
C1_CacheHitIff ==
    [][(call = NoCall /\ call' # NoCall /\ call'.count = 1 /\ call'.use_local) =>
        LET q == SEARCH_RESULT_DICT[call'.keyword]
            mt == call'.market_type
            valid == /\ q # <<>>
                     /\ q[1].last_time # 0
                     /\ now - q[1].last_time <= 259200
                     /\ (mt = NoFilter \/ q[1].classify = mt)
        IN  IF valid
            THEN /\ ~requested'
                 /\ ret' = [kind |-> "Quote",
                            quotes |-> <<[code |-> q[1].code, classify |-> q[1].classify]>>]
            ELSE requested']_vars

\* C1's case: a filtered lookup served from an entry exactly 3 days old.
C1_Witness ==
    /\ Returned /\ call.count = 1 /\ call.use_local
    /\ call.market_type # NoFilter
    /\ ~requested
    /\ ret.kind = "Quote"
    /\ SEARCH_RESULT_DICT[call.keyword] # <<>>
    /\ now - SEARCH_RESULT_DICT[call.keyword][1].last_time = 259200

\* C2: when exact-symbol mode is requested, every Quote the call returns has
\* code equal to the input keyword, from the cache or from an online search.
C2_ExactSymbolOnly ==
    (Returned /\ call.symbol_mode) =>
        \A i \in 1..Len(ret.quotes) : ret.quotes[i].code = call.keyword

\* C16: with a market_type filter, every Quote that search_quote returns,
\* from the cache or from an online search, alone or in a list, has
\* classify equal to the filter's value.
C16_MarketFilter ==
    (Returned /\ call.market_type # NoFilter) =>
        \A i \in 1..Len(ret.quotes) : ret.quotes[i].classify = call.market_type

\* C16's case: a filtered online search in list mode returned two quotes.
C16_Witness ==
    /\ Returned /\ requested
    /\ call.market_type = "HK"
    /\ ret.kind = "List" /\ Len(ret.quotes) = 2

\* C20: an online resolution of a keyword with a surviving candidate sets
\* the keyword's cache entry to the first survivor with last_time the
\* current time, whatever entry it had, and changes no other entry.
C20_SaveFirstSurvivor ==
    [][(call = NoCall /\ call' # NoCall /\ requested' /\ ret'.quotes # <<>>) =>
        SEARCH_RESULT_DICT' =
            [SEARCH_RESULT_DICT EXCEPT ![call'.keyword] = <<EntryOf(ret'.quotes[1], now)>>]]_vars

\* C20's case: a keyword resolved online now, while the other keyword keeps
\* the entry of an earlier resolution.
C20_Witness ==
    /\ Returned /\ requested /\ ret.quotes # <<>>
    /\ SEARCH_RESULT_DICT[call.keyword] = <<EntryOf(ret.quotes[1], now)>>
    /\ \E k \in Keywords \ {call.keyword} :
        /\ SEARCH_RESULT_DICT[k] # <<>>
        /\ SEARCH_RESULT_DICT[k][1].last_time \notin {0, now}

\* C26: a lookup served from the local cache changes neither the dict nor
\* the cache file; the entry keeps its last_time, so it is served only up
\* to 3 days after its last online resolution, whatever the hits since.
C26_HitChangesNothing ==
    [][(call = NoCall /\ call' # NoCall /\ ~requested') =>
        /\ SEARCH_RESULT_DICT' = SEARCH_RESULT_DICT
        /\ cacheFile' = cacheFile
        /\ now - SEARCH_RESULT_DICT'[call'.keyword][1].last_time <= 259200]_vars

\* C26's case: a hit on an entry saved one second before, with the file
\* holding the dict.
C26_Witness ==
    /\ Returned /\ ~requested /\ ret.kind = "Quote"
    /\ call.market_type = NoFilter
    /\ now - SEARCH_RESULT_DICT[call.keyword][1].last_time = 1
    /\ cacheFile = <<SEARCH_RESULT_DICT>>

\* C27: an online resolution without a surviving candidate, or whose answer
\* does not parse, leaves every entry of the dict as it was, the keyword's
\* own stale or market-mismatched entry included.
C27_MissKeepsEntries ==
    [][(call = NoCall /\ call' # NoCall /\ requested' /\ ret'.quotes = <<>>) =>
        SEARCH_RESULT_DICT' = SEARCH_RESULT_DICT]_vars

\* C27's case: a filtered search whose candidates were all dropped, for
\* a keyword whose entry is of another market.
C27_Witness ==
    /\ Returned /\ requested /\ response = "json" /\ ret.quotes = <<>>
    /\ call.market_type = "HK"
    /\ SEARCH_RESULT_DICT[call.keyword] # <<>>
    /\ SEARCH_RESULT_DICT[call.keyword][1].classify = "AStock"
    /\ SEARCH_RESULT_DICT[call.keyword][1].last_time # 0
    /\ cacheFile = <<SEARCH_RESULT_DICT>>

(***************************************************************************)
(* Properties of the entry points                                          *)
(***************************************************************************)

\* C12: invalid input is rejected at once and before any request:
\* get_quote_id with an empty or whitespace-only code and suppress_error
\* false raises without its check being made again and without a search
\* request, and get_quote_history with an argument that is neither a str
\* nor iterable raises TypeError without a request.
C12_InvalidInputRaisesAtOnce ==
    /\ (quoteIdCall.pc # "none" /\ IsBlank(quoteIdCall.stock_code)
            /\ ~quoteIdCall.suppress_error) =>
        /\ quoteIdCall.requests = 0 /\ historyCall.requests = 0
        /\ quoteIdCall.checks <= 1 /\ quoteIdCall.sleeps = 0
        /\ quoteIdCall.checks = 1 => quoteIdCall.pc = "raised"
    /\ (historyCall.type = "other" /\ historyCall.pc # "call") =>
        /\ historyCall.pc = "raised" /\ historyCall.out = "TypeError"
        /\ historyCall.requests = 0 /\ quoteIdCall = NoQuoteIdCall
        /\ pcMain = "none"

\* A search that was requested has come back, from an answer that parsed,
\* without a candidate.
SearchMissed == Returned /\ requested /\ response = "json" /\ ret.quotes = <<>>

\* C14, as claimed: when the search returns no candidate, or none survives
\* the filters, search_quote returns None and get_quote_id returns "" without
\* raising, and prints its warning unless suppress_error is set.
C14_MissIsNone ==
    /\ SearchMissed => ret.kind = "None"
    /\ (SearchMissed /\ quoteIdCall.pc # "none") =>
        /\ quoteIdCall.pc = "returned"
        /\ quoteIdCall.out.kind = "empty"
        /\ quoteIdCall.warned = ~quoteIdCall.suppress_error

\* C14, amended: search_quote returns None in single-result mode, and None
\* or the empty list in list mode; get_quote_id, which searches in
\* single-result mode, returns "" without raising, and prints its warning
\* unless suppress_error is set.
C14_MissIsEmpty ==
    /\ SearchMissed =>
        IF call.count = 1 THEN ret.kind = "None" ELSE ret.kind \in {"None", "List"}
    /\ (SearchMissed /\ quoteIdCall.pc # "none") =>
        /\ call.count = 1
        /\ quoteIdCall.pc = "returned"
        /\ quoteIdCall.out.kind = "empty"
        /\ quoteIdCall.warned = ~quoteIdCall.suppress_error

\* C14's case: get_quote_id in exact-symbol mode got candidates, none of
\* which survived (the file was rewritten with nothing saved), warned and
\* returned "".
C14_Witness ==
    /\ SearchMissed
    /\ quoteIdCall.pc = "returned" /\ quoteIdCall.symbol_mode
    /\ cacheFile = <<EmptyDict>>
    /\ quoteIdCall.out.kind = "empty" /\ quoteIdCall.warned

\* The answer to the search request of the call was not valid JSON.
Unparsable == Returned /\ response = "unparsable"

\* C21, as claimed: when the body of the search endpoint's answer is not
\* valid JSON, search_quote does not catch the parse failure, which reaches
\* its caller; under get_quote_id it goes into retry, which calls again
\* until three calls have failed.
C21_ParseFailurePropagates ==
    Unparsable =>
        /\ ret.kind = "Exception"
        /\ quoteIdCall.pc # "none" =>
              /\ quoteIdCall.pc \in {"sleep", "raised"}
              /\ quoteIdCall.fails <= 3
              /\ quoteIdCall.pc = "raised" <=> quoteIdCall.fails = 3

\* C21, amended: where the parse failure is a json.JSONDecodeError
\* (requests without simplejson), search_quote catches it and returns None,
\* and get_quote_id returns "" without another attempt, after its warning
\* unless suppress_error is set; where requests decodes with simplejson the
\* failure reaches the caller, and under get_quote_id retry calls again
\* until three calls have failed.
C21_ParseFailureCaughtUnlessSimplejson ==
    Unparsable =>
        IF simplejson
        THEN /\ ret.kind = "Exception"
             /\ quoteIdCall.pc # "none" =>
                   /\ quoteIdCall.pc \in {"sleep", "raised"}
                   /\ quoteIdCall.fails <= 3
                   /\ quoteIdCall.pc = "raised" <=> quoteIdCall.fails = 3
        ELSE /\ ret.kind = "None"
             /\ quoteIdCall.pc # "none" =>
                   /\ quoteIdCall.pc = "returned"
                   /\ quoteIdCall.out.kind = "empty"
                   /\ quoteIdCall.warned = ~quoteIdCall.suppress_error

\* C21's case: without simplejson, get_quote_id got a body that is not
\* JSON on its first attempt and returned "".
C21_Witness ==
    /\ Unparsable /\ ~simplejson
    /\ quoteIdCall.pc = "returned" /\ quoteIdCall.checks = 1
    /\ quoteIdCall.out.kind = "empty"

\* C15: get_quote_history dispatches on its argument's type: a str yields
\* one table from the single-symbol path, any other iterable is made a list
\* and yields the symbol-keyed mapping (one concatenated table under
\* return_df), and any other value raises TypeError.
C15_DispatchOnType ==
    /\ historyCall.type = "str" =>
        /\ pcMain = "none"
        /\ historyCall.pc = "returned" =>
              (historyCall.path = "single" /\ historyCall.out = "DataFrame")
    /\ (historyCall.type \in {"list", "tuple"} /\ historyCall.pc # "call") =>
        /\ historyCall.path = "multi" /\ codes = historyCall.val
        /\ historyCall.requests = 0 /\ quoteIdCall = NoQuoteIdCall
        /\ pcMain = "returned" =>
              result.kind = (IF return_df THEN "DataFrame" ELSE "dict")
    /\ (historyCall.type = "other" /\ historyCall.pc # "call") =>
        (historyCall.pc = "raised" /\ historyCall.out = "TypeError")

(***************************************************************************)
(* Properties of the shared cache file                                     *)
(***************************************************************************)

\* The keywords the threads of process p have put into its dict.
OwnKeywords(p) ==
    {saver[t].keyword : t \in {u \in 1..Len(saver) :
                                  saver[u].proc = p /\ saver[u].pc \in {"set", "dumped", "closed"}}}

\* C23: processes that share the cache file can lose each other's updates,
\* because a save rewrites the whole file from the saving process's own
\* dict, which holds what the process loaded at its start and what its own
\* threads saved: the text a save writes is that dict's, and it has no
\* entry that another process wrote to the file since.
C23_WholeFileFromOwnMap ==
    [][\A t \in 1..Len(saver) :
          (saver[t].pc = "dumped" /\ saver'[t].pc = "closed") =>
              /\ disk'.dict = saver[t].buf
              /\ \A k \in Keywords :
                    saver[t].buf[k] # <<>> =>
                        \/ proc[saver[t].proc].loaded[k] # <<>>
                        \/ k \in OwnKeywords(saver[t].proc)]_vars

\* C23's case: two processes have each saved a keyword of their own, and
\* the file, which parses, lacks the entry of one of them.
C23_Witness ==
    \E t, u \in 1..Len(saver) :
        /\ saver[t].proc # saver[u].proc
        /\ saver[t].keyword # saver[u].keyword
        /\ saver[t].pc = "closed" /\ saver[u].pc = "closed"
        /\ disk.kind = "json"
        /\ disk.dict[saver[t].keyword] = <<>>
        /\ disk.dict[saver[u].keyword] # <<>>

\* C24: a process that starts with a cache file that json.load cannot parse
\* has an empty dict and cuts the file to no bytes; with a file that parses
\* its dict is the file's content; with none its dict is empty.  After a
\* start from a broken file a keyword is resolved online, and its save puts
\* it into the dict.
C24_StartLoadsOrTruncates ==
    [][\A p \in Procs :
          /\ (proc[p].pc = "off" /\ proc'[p].pc # "off") =>
                IF disk.kind = "json"
                THEN proc'[p].mem = disk.dict /\ proc'[p].pc = "up" /\ disk' = disk
                ELSE /\ proc'[p].mem = EmptyDict
                     /\ IF disk.kind = "absent"
                        THEN proc'[p].pc = "up" /\ disk' = disk
                        ELSE proc'[p].pc = "truncate"
          /\ (proc[p].pc = "truncate" /\ proc'[p].pc = "up") =>
                /\ disk'.kind = "empty" /\ disk'.len = 0
                /\ proc'[p].mem = proc[p].mem
          /\ \A t \in 1..Len(saver) :
                (saver[t].proc = p /\ proc[p].start = "corrupt") =>
                    /\ (saver[t].pc = "idle" /\ saver'[t].pc = "hit") =>
                            saver[t].keyword \in OwnKeywords(p)
                    /\ (saver[t].pc = "opened" /\ saver'[t].pc = "set") =>
                            proc'[p].mem[saver[t].keyword] # <<>>]_vars

\* C24's case: a process that started from a file that did not parse has
\* resolved a keyword, which is in its dict and in the file again.
C24_Witness ==
    \E t \in 1..Len(saver) :
        /\ proc[saver[t].proc].start = "corrupt"
        /\ saver[t].pc = "closed"
        /\ disk.kind = "json"
        /\ disk.dict = proc[saver[t].proc].mem
        /\ disk.dict[saver[t].keyword] # <<>>

\* All the threads are in process 1, and the other process has not started.
OneProcess == proc[2].pc = "off" /\ \A t \in 1..Len(saver) : saver[t].proc = 1

\* Every thread has ended its resolution, and one at least has saved.
SavesCompleted ==
    /\ \A t \in 1..Len(saver) : saver[t].pc \in {"closed", "hit"}
    /\ \E t \in 1..Len(saver) : saver[t].pc = "closed"

\* C29: when the threads of one process have resolved and saved different
\* keywords, the file parses, its content is the process's dict, and every
\* saved keyword is in it, for every interleaving of the threads.
C29_ThreadsKeepFileWhole ==
    (/\ OneProcess
     /\ SavesCompleted
     /\ \A t, u \in 1..Len(saver) : saver[t].keyword = saver[u].keyword => t = u) =>
        /\ disk.kind = "json"
        /\ disk.dict = proc[1].mem
        /\ \A t \in 1..Len(saver) :
              saver[t].pc = "closed" => disk.dict[saver[t].keyword] # <<>>

(***************************************************************************)
(* Properties of the series getters                                        *)
(***************************************************************************)

\* The answer carries no series rows: data is null, or the series is
\* missing or empty.
NoSeriesRows == JsonPathSeries(seriesCall.response) = <<>>

\* C22: each single-symbol series getter of common returns, for an answer
\* without series rows or without the expected keys, an empty table whose
\* columns are those of a non-empty result (名称, 代码, then the series
\* columns), and does not raise.
C22_EmptyTableOnNoRows ==
    (seriesCall.pc = "done" /\ NoSeriesRows) =>
        /\ seriesCall.out.kind = "DataFrame"
        /\ seriesCall.out.rows = <<>>
        /\ seriesCall.out.columns = <<"Name", "Code">> \o SeriesColumns(seriesCall.getter)

\* C30: for a quote id that BASE_INFO_CACHE already holds, get_deal_detail
\* uses the cached base info and issues no base-info request; the request is
\* issued only in the first call for a quote id.
C30_BaseInfoRequestedOnce ==
    (dealCall.pc = "done" /\ dealCall.cached) =>
        /\ dealCall.base_requests = 0
        /\ dealCall.base_info = BASE_INFO_CACHE[dealCall.quote_id]

(***************************************************************************)
(* Properties of the batch fetch                                           *)
(***************************************************************************)

\* The call has come back to its caller.
Finished == pcMain \in {"returned", "raised"}

\* The call has returned the symbol-keyed mapping.
MappingReturned == pcMain = "returned" /\ ~return_df

\* The input symbols are pairwise different.
DistinctCodes == \A i, j \in 1..Len(codes) : codes[i] = codes[j] => i = j

\* Task i has left its retry loop.
Ended(i) == task[i].pc \in {"done", "failed"}

\* C3: with N distinct symbols and a fetch that always succeeds, the
\* returned mapping has exactly the N input symbols as keys, one entry
\* each, for every ceiling and every interleaving.
C3_BatchComplete ==
    (MappingReturned /\ DistinctCodes /\ \A i \in 1..Len(codes) : task[i].fails = 0) =>
        /\ DictKeys(result.dict) = {codes[i] : i \in 1..Len(codes)}
        /\ Len(result.dict) = Len(codes)

\* C3's case: three symbols under a ceiling of 1, in common.
C3_Witness ==
    /\ MappingReturned /\ DistinctCodes
    /\ site = "common" /\ Len(codes) = 3 /\ MAX_CONNECTIONS = 1
    /\ \A i \in 1..Len(codes) : task[i].fails = 0
    /\ Len(result.dict) = 3

C5_ReturnsAfterAllTasks ==
    Finished =>
        /\ \A i \in 1..Len(codes) : Ended(i)
        /\ (pcMain = "returned" /\ ~return_df) => result.dict = dfs

\* C5's case: a futures batch returned after one task stored and one gave up.
C5_Witness ==
    /\ pcMain = "returned" /\ site = "futures"
    /\ \E i, j \in 1..Len(codes) : task[i].pc = "done" /\ task[j].pc = "failed"

\* C6: every batch fetch eventually comes back to its caller, also when a
\* symbol's fetch fails on every attempt.
C6_EventuallyReturns == <>Finished

\* C6's case: the call is back although a task failed on every attempt.
C6_Witness ==
    /\ Finished /\ site = "fund"
    /\ \E i \in 1..Len(codes) : task[i].pc = "failed" /\ task[i].fails = 3

\* C7: a symbol that fails on every retry does not keep the other symbols
\* from being launched, run and stored: in the returned mapping every
\* symbol whose task did not give up has its entry.
C7_NoFailFast ==
    (MappingReturned /\ \E j \in 1..Len(codes) : task[j].pc = "failed") =>
        \A i \in 1..Len(codes) :
            task[i].pc # "failed" =>
                /\ task[i].pc = "done"
                /\ codes[i] \in DictKeys(result.dict)

\* C7's case: the first symbol gave up and the two after it are stored.
C7_Witness ==
    /\ MappingReturned /\ Len(codes) = 3
    /\ task[1].pc = "failed"
    /\ {codes[2], codes[3]} \subseteq DictKeys(result.dict)

\* C8: in mapping mode no exception reaches the caller, and a symbol whose
\* every task exhausted its retries is absent from the returned mapping.
C8_FailedSymbolAbsent ==
    /\ ~return_df => pcMain # "raised"
    /\ MappingReturned =>
        \A i \in 1..Len(codes) :
            (\A j \in 1..Len(codes) : codes[j] = codes[i] => task[j].pc = "failed")
                => codes[i] \notin DictKeys(result.dict)

\* C8's case: a mapping returned without the one symbol, which gave up.
C8_Witness ==
    /\ MappingReturned /\ Len(codes) = 1
    /\ task[1].pc = "failed"
    /\ result.dict = <<>>

\* The place of a symbol among the keys of the dict, in insertion order.
KeyPlace(d, key) == CHOOSE e \in 1..Len(d) : d[e].key = key

\* C25: with return_df a batch fetch returns one table, whose rows are the
\* rows of the tables stored in the mapping, each once, grouped by symbol
\* in the order in which the symbols were first stored, and numbered from 0.
C25_ConcatenatedTable ==
    (Finished /\ return_df) =>
        /\ pcMain = "returned" /\ result.kind = "DataFrame"
        /\ \A e \in 1..Len(dfs) : \A j \in 1..Len(dfs[e].val.rows) :
              Cardinality({p \in 1..Len(result.rows) :
                              /\ result.rows[p].code = dfs[e].key
                              /\ result.rows[p].line = dfs[e].val.rows[j].line}) = 1
        /\ \A p \in 1..Len(result.rows) :
              /\ result.rows[p].index = p - 1
              /\ \E e \in 1..Len(dfs) : \E j \in 1..Len(dfs[e].val.rows) :
                    /\ dfs[e].key = result.rows[p].code
                    /\ dfs[e].val.rows[j].line = result.rows[p].line
        /\ \A p, q \in 1..Len(result.rows) :
              p < q =>
                  \/ KeyPlace(dfs, result.rows[p].code) < KeyPlace(dfs, result.rows[q].code)
                  \/ /\ result.rows[p].code = result.rows[q].code
                     /\ result.rows[p].line < result.rows[q].line

\* C28: at every point of a batch fetch each key of the mapping is an input
\* symbol and its value is the table a fetch of that symbol returned; an
\* attempt that failed has not written the mapping nor advanced the
\* progress counter, which counts the fetches that returned and never
\* exceeds the number of input symbols.
C28_MappingHoldsFetchedTables ==
    /\ \A e \in 1..Len(dfs) :
          /\ \E i \in 1..Len(codes) : codes[i] = dfs[e].key /\ task[i].pc = "done"
          /\ dfs[e].val = FetchTable(dfs[e].key)
    /\ pbar = Cardinality({i \in 1..Len(codes) : task[i].pc = "done"})
    /\ pbar <= Len(codes)

\* The input holds an empty symbol string.
HasInvalidCode == \E i \in 1..Len(codes) : InvalidCode(codes[i])

\* C13: a batch call whose collection holds an empty symbol string is
\* aborted as a whole: it does not return a result, the validation failure
\* reaches its caller.
C13_InvalidSymbolAborts == HasInvalidCode => pcMain # "returned"

\* C17: no key of the shared dict is written twice in a batch, for every
\* input list, lists that repeat a symbol included.
C17_KeyWrittenOnce == \A i \in 1..Len(codes) : Writes(codes[i]) <= 1

\* C18: in common and fund the tasks are launched in input order, and the
\* live tasks are compared with the ceiling before each launch: a task is
\* launched while they exceed it only after the caller's sleep.
C18_CeilingTestedBeforeLaunch ==
    [][(site \in {"common", "fund"} /\ launched' = launched + 1) =>
        /\ task'[launched'].pc = "ready"
        /\ \A j \in (launched' + 1)..Len(codes) : task'[j].pc = "idle"
        /\ ActiveTasks > MAX_CONNECTIONS => pcMain = "sleep"]_vars

\* C19: the ceiling is looked at only when a task is admitted.  In common
\* the loop starts a task at once only while the live tasks do not exceed
\* MAX_CONNECTIONS, and after its sleep it starts the task whatever their
\* number, so the live tasks can outnumber the ceiling.
C19_SoftCeiling ==
    [][site = "common" =>
        /\ (pcMain = "loop" /\ launched' = launched + 1) => ActiveTasks <= MAX_CONNECTIONS
        /\ (pcMain = "sleep" /\ pcMain' = "loop") => launched' = launched + 1]_vars

\* C19's case: three live tasks under a ceiling of 1.
C19_Witness ==
    /\ site = "common" /\ MAX_CONNECTIONS = 1
    /\ ActiveTasks = 3

(***************************************************************************)
(* Properties of to_numeric                                                *)
(***************************************************************************)

\* C9: every cell under a listed column or index label is returned as the
\* function produced it, all-digit strings included.
C9_ListedCellsUnchanged ==
    \A label \in DOMAIN values :
        label \in {"StockCode", "FundCode", "Code", "MarketType", "MarketNumber",
                   "BondCode", "QuoteID", "UnderlyingStockCode"}
            => values[label] = orig[label]

\* C9's case: the str "01" under 代码 has gone through to_numeric.
C9_Witness ==
    /\ runs >= 1
    /\ "Code" \in DOMAIN values
    /\ values["Code"][1] = StrCell(<<"0", "1">>)

\* C10: a second run of to_numeric leaves the result of the first as it is.
C10_Idempotent == runs = 2 => values = first

\* C10's case: a DataFrame column of "1" and ".1" became floats in the
\* first run and is the same after the second.
C10_Witness ==
    /\ runs = 2 /\ kind = "DataFrame"
    /\ "Price" \in DOMAIN values
    /\ orig["Price"] = <<StrCell(<<"1">>), StrCell(<<".", "1">>)>>
    /\ values["Price"] = <<FloatCell(1, 0), FloatCell(1, 1)>>

\* C11: convert returns v unchanged when str(v) has no digit; otherwise it
\* tries int(v) when str(v) is alphanumeric and float(v) when it is not,
\* returns the number on success and v on failure; it never raises.
C11_ConvertTotal ==
    /\ failure = "none"
    /\ (kind = "Series" /\ runs = 1) =>
        \A label \in DOMAIN values \ ignore :
            LET v == orig[label][1]
                parsed == IF IsAlnum(StrOf(v)) THEN IntOf(v) ELSE FloatOf(v)
            IN  values[label][1] =
                    IF ~HasDigit(StrOf(v)) \/ parsed = <<>> THEN v ELSE parsed[1]

=============================================================================
